---- MODULE Spec2Model ----
(***************************************************************************)
(* The symbol cache of the datapack language service (ClientCache) and the *)
(* operations that maintain it: combineCache, remapCachePosition,          *)
(* removeCachePosition, removeCacheUnit and trimCache; the visibility      *)
(* rules of its positions (getCacheVisibilities, testID), the view of the *)
(* cache for one identity (getCacheForID) and the reads of the cache       *)
(* (getCacheFromOffset, getCompletions).                                   *)
(*                                                                         *)
(* A ClientCache is a JavaScript object, so its keys keep insertion order: *)
(* it is modelled as a sequence of [key, val] entries.  CachePosition      *)
(* objects are shared by reference between a document-local cache and the  *)
(* shared cache, so they live in `heap` and the caches hold addresses.     *)
(***************************************************************************)
EXTENDS Integers, Sequences, FiniteSets, TLC

VARIABLES
    heap,       \* the CachePosition objects: address -> fields
    cache,      \* service.cacheFile.cache, the shared ClientCache
    override,   \* the document-local ClientCache produced by the last parse
    pre,        \* heap, cache and override as they were before the last operation
    last,       \* the last operation and its arguments
    lastDoc,    \* per (type, id): the doc of the last merged unit that carried one
    nOps,       \* number of cache operations performed
    nParses,    \* number of document-local caches produced
    result,     \* the ClientCache the last getCacheForID returned
    queried,    \* the caller's query: "no", "returned", "threw", "written"
    budget,     \* the number of cache operations a behaviour may perform
    vis,        \* a call of getCacheVisibilities and testID, and its outcome
    opened      \* the open documents, in the order of their merges

vars == <<heap, cache, override, pre, last, lastDoc, nOps, nParses,
          result, queried, budget, vis, opened>>

----------------------------------------------------------------------------
(* Bounds of the model *)

MaxOps == 4
MaxParses == 2
\* cache operations in a behaviour that queries the cache
MaxQueryOps == 2
\* length of the patterns that are enumerated
MaxPattern == 3
\* number of rules of the rule sets that are enumerated
MaxRules == 2
\* cache operations and reads in a behaviour that reads the cache
MaxReadOps == 3
\* the offsets of the point queries
MaxOffset == 5
MaxBoundaryOps == 2
\* documents opened and closed in a behaviour of the document lifecycle
MaxLifeOps == 4

----------------------------------------------------------------------------
(* Optional values (`x?: T`): None is undefined, Some(x) is a present x *)

None == <<>>
Some(x) == <<x>>

----------------------------------------------------------------------------
(* Insertion-ordered objects: Object.keys, obj[k], obj[k] = v, delete obj[k] *)

Has(m, k) == \E i \in 1..Len(m) : m[i].key = k
Idx(m, k) == CHOOSE i \in 1..Len(m) : m[i].key = k
Get(m, k) == m[Idx(m, k)].val
Put(m, k, v) ==
    IF Has(m, k) THEN [m EXCEPT ![Idx(m, k)].val = v]
    ELSE Append(m, [key |-> k, val |-> v])
Del(m, k) == SelectSeq(m, LAMBDA e : e.key # k)

RECURSIVE Flatten(_)
Flatten(ss) == IF ss = <<>> THEN <<>> ELSE Head(ss) \o Flatten(Tail(ss))

----------------------------------------------------------------------------
(* The universe the inputs are drawn from *)

Types == {"function", "objective"}
Ids == {"a:x", "b:y"}

CacheUnitPositionTypes == <<"dcl", "def", "ref">>
Kinds == {"dcl", "def", "ref"}

\* A stamp (`addition`): the document's uri and its offset -> Position
\* resolver.  The documents have lines of a fixed width, so the resolver
\* is determined by the width.
Additions == {[uri |-> "file:///a", width |-> 2], [uri |-> "file:///b", width |-> 3]}
Uris == {a.uri : a \in Additions}
WidthOf(uri) == (CHOOSE a \in Additions : a.uri = uri).width

getPosition(addition, offset) ==
    [line |-> offset \div addition.width, character |-> offset % addition.width]

\* {} as a CacheUnit
EmptyUnit == [dcl |-> None, def |-> None, ref |-> None, doc |-> None]

\* a CachePosition as the binder produces it
Pos(start, end, visibility) ==
    [start |-> start, end |-> end, uri |-> None, visibility |-> visibility,
     scope |-> None, startLine |-> None, startChar |-> None,
     endLine |-> None, endChar |-> None]

PrivateAX == <<[type |-> "function", pattern |-> <<"a", ":", "x">>]>>
P1 == Pos(0, 1, None)
P2 == Pos(2, 4, Some(PrivateAX))

----------------------------------------------------------------------------
(* Walking a ClientCache: for type of Object.keys(cache), for id of          *)
(* Object.keys(category), for t of CacheUnitPositionTypes                    *)

UnitSlots(c) ==
    Flatten([ti \in 1..Len(c) |->
                [ui \in 1..Len(c[ti].val) |-> [ti |-> ti, ui |-> ui]]])

UnitAt(c, sl) == c[sl.ti].val[sl.ui].val
TypeAt(c, sl) == c[sl.ti].key
IdAt(c, sl) == c[sl.ti].val[sl.ui].key

\* unit[t] ?? []
Arr(unit, t) == IF unit[t] = None THEN <<>> ELSE unit[t][1]
\* unit[t]?.length (0 and undefined are both falsy)
ArrLen(unit, t) == Len(Arr(unit, t))
\* truthiness of unit.doc
HasDoc(unit) == unit.doc # None /\ unit.doc[1] # ""

HasUnit(c, type, id) == Has(c, type) /\ Has(Get(c, type), id)
GetUnit(c, type, id) == Get(Get(c, type), id)

MapUnits(c, F(_)) ==
    [ti \in 1..Len(c) |->
        [key |-> c[ti].key,
         val |-> [ui \in 1..Len(c[ti].val) |->
                    [key |-> c[ti].val[ui].key, val |-> F(c[ti].val[ui].val)]]]]

\* apply G to every array that is present
MapArrays(c, G(_)) ==
    MapUnits(c, LAMBDA u :
        [dcl |-> IF u.dcl = None THEN None ELSE Some(G(u.dcl[1])),
         def |-> IF u.def = None THEN None ELSE Some(G(u.def[1])),
         ref |-> IF u.ref = None THEN None ELSE Some(G(u.ref[1])),
         doc |-> u.doc])

\* every array element of the cache, in iteration order
Elements(c) ==
    Flatten([ti \in 1..Len(c) |->
        Flatten([ui \in 1..Len(c[ti].val) |->
            LET u == c[ti].val[ui].val
            IN Arr(u, "dcl") \o Arr(u, "def") \o Arr(u, "ref")])])

Range(s) == {s[i] : i \in 1..Len(s)}

----------------------------------------------------------------------------
(* The heap.  Objects that no cache and no returned result reaches are      *)
(* dropped and the rest keep their order: garbage collection, which no     *)
(* JavaScript program can observe.                                          *)

\* the addresses a cache holds
Addrs(c) ==
    UNION {UNION {Range(Arr(c[ti].val[ui].val, t)) :
                     ui \in 1..Len(c[ti].val), t \in Kinds} :
              ti \in 1..Len(c)}

Canon(h, ov, c, res) ==
    LET used == Addrs(ov) \cup Addrs(c) \cup Addrs(res)
    IN IF used = DOMAIN h
       THEN [heap |-> h, override |-> ov, cache |-> c, result |-> res]
       ELSE LET newAddr == [r \in used |-> Cardinality({u \in used : u <= r})]
                rename(arr) == [i \in 1..Len(arr) |-> newAddr[arr[i]]]
            IN [heap |-> [k \in 1..Cardinality(used) |->
                            h[CHOOSE r \in used : newAddr[r] = k]],
                override |-> MapArrays(ov, rename),
                cache |-> MapArrays(c, rename),
                result |-> MapArrays(res, rename)]

\* Allocate one new object for every array element of a cache whose
\* arrays hold field records (an object literal, or the result of map()).
RECURSIVE AllocSlots(_, _, _)
AllocSlots(h, c, sks) ==
    IF sks = <<>> THEN [heap |-> h, cache |-> c]
    ELSE LET sk == Head(sks)
             u == UnitAt(c, sk)
         IN IF u[sk.t] = None THEN AllocSlots(h, c, Tail(sks))
            ELSE LET arr == u[sk.t][1]
                     refs == [k \in 1..Len(arr) |-> Len(h) + k]
                 IN AllocSlots(h \o arr,
                               [c EXCEPT ![sk.ti].val[sk.ui].val[sk.t] = Some(refs)],
                               Tail(sks))

Alloc(h, c) ==
    LET slots == UnitSlots(c)
    IN AllocSlots(h, c,
          Flatten([i \in 1..Len(slots) |->
              [k \in 1..Len(CacheUnitPositionTypes) |->
                  [ti |-> slots[i].ti, ui |-> slots[i].ui,
                   t |-> CacheUnitPositionTypes[k]]]]))

\* the cache with the fields of every position in place of its address
View(h, c) == MapArrays(c, LAMBDA arr : [i \in 1..Len(arr) |-> h[arr[i]]])

\* the fields of the positions of unit[t]
Values(h, unit, t) == [i \in 1..ArrLen(unit, t) |-> h[Arr(unit, t)[i]]]

----------------------------------------------------------------------------
(* combineCache(base, override, addition?) *)

getSafeCategory(c, type) == IF Has(c, type) THEN Get(c, type) ELSE <<>>

\* ans[type] = getSafeCategory(ans, type); ansCategory[id] = ansCategory[id] || {}
initUnit(ans, type, id) ==
    LET ans1 == Put(ans, type, getSafeCategory(ans, type))
        ansCategory == Get(ans1, type)
    IN Put(ans1, type,
           Put(ansCategory, id,
               IF Has(ansCategory, id) THEN Get(ansCategory, id) ELSE EmptyUnit))

\* Stamped with the end line/column taken from the start offset
Stamped_endFromStart(p, a) ==
    [p EXCEPT !.uri = Some(a.uri),
              !.startLine = Some(getPosition(a, p.start).line),
              !.startChar = Some(getPosition(a, p.start).character),
              !.endLine = Some(getPosition(a, p.start).line),
              !.endChar = Some(getPosition(a, p.start).character)]

\* the fields addPos writes into pos when a stamp is given
Stamped(p, a) ==
    [p EXCEPT !.uri = Some(a.uri),
              !.startLine = Some(getPosition(a, p.start).line),
              !.startChar = Some(getPosition(a, p.start).character),
              !.endLine = Some(getPosition(a, p.end).line),
              !.endChar = Some(getPosition(a, p.end).character)]

\* addPos that overwrites the array instead of pushing onto it
addPos_replace(h, pos, arr, addition) ==
    LET h1 == IF addition # None
              THEN [h EXCEPT ![pos] = Stamped(h[pos], addition[1])]
              ELSE h
    IN [heap |-> h1,
        arr |-> <<pos>>,
        unstamped |-> addition # None /\ h1[pos] # Stamped(h1[pos], addition[1])]

\* addPos(pos, arr): pos is stamped in place, then pushed.  `unstamped`
\* records whether the object was pushed while it did not carry the stamp.
addPos(h, pos, arr, addition) ==
    LET h1 == IF addition # None
              THEN [h EXCEPT ![pos] = Stamped(h[pos], addition[1])]
              ELSE h
    IN [heap |-> h1,
        arr |-> Append(arr, pos),
        unstamped |-> addition # None /\ h1[pos] # Stamped(h1[pos], addition[1])]

\* for (const overridePos of overrideUnit[type] ?? []) { ... }
RECURSIVE combinePositions(_, _, _, _)
combinePositions(s, t, positions, addition) ==
    IF positions = <<>> THEN s
    ELSE LET r == addPos(s.heap, Head(positions), Arr(s.unit, t), addition)
         IN combinePositions(
                [heap |-> r.heap,
                 unit |-> [s.unit EXCEPT ![t] = Some(r.arr)],
                 unstamped |-> s.unstamped \/ r.unstamped],
                t, Tail(positions), addition)

\* combineUnit that keeps a documentation the base unit already has
combineUnit_keepDoc(h, ansUnit, overrideUnit, addition) ==
    LET s0 == [heap |-> h, unit |-> ansUnit, unstamped |-> FALSE]
        s1 == combinePositions(s0, "dcl", Arr(overrideUnit, "dcl"), addition)
        s2 == combinePositions(s1, "def", Arr(overrideUnit, "def"), addition)
        s3 == combinePositions(s2, "ref", Arr(overrideUnit, "ref"), addition)
    IN IF HasDoc(overrideUnit) /\ ~HasDoc(ansUnit)
       THEN [s3 EXCEPT !.unit.doc = overrideUnit.doc]
       ELSE s3

\* the body of the `if` for one participating override unit
combineUnit(h, ansUnit, overrideUnit, addition) ==
    LET s0 == [heap |-> h, unit |-> ansUnit, unstamped |-> FALSE]
        s1 == combinePositions(s0, "dcl", Arr(overrideUnit, "dcl"), addition)
        s2 == combinePositions(s1, "def", Arr(overrideUnit, "def"), addition)
        s3 == combinePositions(s2, "ref", Arr(overrideUnit, "ref"), addition)
    IN IF HasDoc(overrideUnit)
       THEN [s3 EXCEPT !.unit.doc = overrideUnit.doc]
       ELSE s3

\* Participates with `doc !== undefined` in place of the truthiness of doc
Participates_docDefined(overrideUnit) ==
    \/ ArrLen(overrideUnit, "dcl") > 0
    \/ ArrLen(overrideUnit, "def") > 0
    \/ ArrLen(overrideUnit, "ref") > 0
    \/ overrideUnit.doc # None

\* overrideUnit.dcl?.length || overrideUnit.def?.length ||
\* overrideUnit.ref?.length || overrideUnit.doc
Participates(overrideUnit) ==
    \/ ArrLen(overrideUnit, "dcl") > 0
    \/ ArrLen(overrideUnit, "def") > 0
    \/ ArrLen(overrideUnit, "ref") > 0
    \/ HasDoc(overrideUnit)

RECURSIVE combineUnits(_, _, _, _)
combineUnits(s, ov, slots, addition) ==
    IF slots = <<>> THEN s
    ELSE LET type == TypeAt(ov, Head(slots))
             id == IdAt(ov, Head(slots))
             overrideUnit == UnitAt(ov, Head(slots))
         IN IF Participates(overrideUnit)
            THEN LET ans1 == initUnit(s.ans, type, id)
                     r == combineUnit(s.heap, GetUnit(ans1, type, id),
                                      overrideUnit, addition)
                 IN combineUnits(
                        [heap |-> r.heap,
                         ans |-> Put(ans1, type, Put(Get(ans1, type), id, r.unit)),
                         unstamped |-> s.unstamped \/ r.unstamped],
                        ov, Tail(slots), addition)
            ELSE combineUnits(s, ov, Tail(slots), addition)

combineCache(h, base, ov, addition) ==
    combineUnits([heap |-> h, ans |-> base, unstamped |-> FALSE],
                 ov, UnitSlots(ov), addition)

----------------------------------------------------------------------------
(* remapCachePosition(cache, mapping) *)

\* An index mapping is a sequence of edit deltas [start, end, delta]; an
\* offset moves by the deltas of the edits that end at or before it.
RECURSIVE MapOffset(_, _)
MapOffset(mapping, offset) ==
    IF mapping = <<>> THEN offset
    ELSE MapOffset(Tail(mapping), offset)
         + (IF Head(mapping).end <= offset THEN Head(mapping).delta ELSE 0)

Mappings ==
    { <<[start |-> 0, end |-> 0, delta |-> 1]>>,
      <<[start |-> 1, end |-> 2, delta |-> -1]>> }

\* remapTextRange that maps the offsets and keeps the line/column pairs
remapTextRange_offsetsOnly(ele, mapping) ==
    [ele EXCEPT !.start = MapOffset(mapping, ele.start),
                !.end = MapOffset(mapping, ele.end)]

\* the range with both offsets mapped and its line/column pairs recomputed
\* in its document
remapTextRange(ele, mapping) ==
    LET start == MapOffset(mapping, ele.start)
        end == MapOffset(mapping, ele.end)
        moved == [ele EXCEPT !.start = start, !.end = end]
    IN IF ele.uri = None THEN moved
       ELSE [moved EXCEPT
                !.startLine = Some(start \div WidthOf(ele.uri[1])),
                !.startChar = Some(start % WidthOf(ele.uri[1])),
                !.endLine = Some(end \div WidthOf(ele.uri[1])),
                !.endChar = Some(end % WidthOf(ele.uri[1]))]

\* remapCachePosition that writes the mapped elements back to front
remapCachePosition_reversed(h, c, mapping) ==
    Alloc(h, MapArrays(c, LAMBDA arr :
                [i \in 1..Len(arr) |->
                    remapTextRange(h[arr[Len(arr) + 1 - i]], mapping)]))

\* unit[t] = unit[t].map(ele => remapTextRange(ele, mapping)): every element
\* is replaced by a new object
remapCachePosition(h, c, mapping) ==
    Alloc(h, MapArrays(c, LAMBDA arr :
                [i \in 1..Len(arr) |-> remapTextRange(h[arr[i]], mapping)]))

----------------------------------------------------------------------------
(* removeCachePosition(cache, uri), removeCacheUnit(cache, type, id),       *)
(* trimCache(cache)                                                         *)

\* removeCachePosition that keeps the positions of the document
removeCachePosition_keepDocument(h, c, uri) ==
    MapArrays(c, LAMBDA arr : SelectSeq(arr, LAMBDA r : h[r].uri = Some(uri)))

\* removeCachePosition comparing ele.uri with the Uri object (never equal)
removeCachePosition_noToString(h, c, uri) ==
    MapArrays(c, LAMBDA arr : SelectSeq(arr, LAMBDA r : TRUE))

\* removeCachePosition that also drops the positions that carry no uri
removeCachePosition_dropUnstamped(h, c, uri) ==
    MapArrays(c, LAMBDA arr :
        SelectSeq(arr, LAMBDA r : h[r].uri # None /\ h[r].uri # Some(uri)))

\* unit[t] = unit[t].filter(ele => ele.uri !== uri.toString())
removeCachePosition(h, c, uri) ==
    MapArrays(c, LAMBDA arr : SelectSeq(arr, LAMBDA r : h[r].uri # Some(uri)))

\* removeCacheUnit that stores the category getSafeCategory returned
removeCacheUnit_storeCategory(c, type, id) ==
    Put(c, type, Del(getSafeCategory(c, type), id))

\* delete getSafeCategory(cache, type)[id]
removeCacheUnit(c, type, id) ==
    IF Has(c, type) THEN Put(c, type, Del(Get(c, type), id)) ELSE c

\* NoPositions that spares a unit with documentation
NoPositions_andNoDoc(unit) ==
    /\ ArrLen(unit, "dcl") = 0 /\ ArrLen(unit, "def") = 0 /\ ArrLen(unit, "ref") = 0
    /\ ~HasDoc(unit)

\* !unit.dcl?.length && !unit.def?.length && !unit.ref?.length
NoPositions(unit) ==
    ArrLen(unit, "dcl") = 0 /\ ArrLen(unit, "def") = 0 /\ ArrLen(unit, "ref") = 0

\* trimCache that tests a category for emptiness before it deletes the units
trimCache_categoryFirst(c) ==
    LET kept == SelectSeq(c, LAMBDA e : Len(e.val) # 0)
    IN [ti \in 1..Len(kept) |->
          [key |-> kept[ti].key,
           val |-> SelectSeq(kept[ti].val, LAMBDA e : ~NoPositions(e.val))]]

trimCache(c) ==
    LET units == [ti \in 1..Len(c) |->
                    [key |-> c[ti].key,
                     val |-> SelectSeq(c[ti].val, LAMBDA e : ~NoPositions(e.val))]]
    IN SelectSeq(units, LAMBDA e : Len(e.val) # 0)

----------------------------------------------------------------------------
(* The document-local caches a parse can produce (object literals) *)

Unit(dcl, def, ref, doc) == [dcl |-> dcl, def |-> def, ref |-> ref, doc |-> doc]
Entry(k, v) == [key |-> k, val |-> v]

LocalCaches ==
    { \* one documented declaration
      <<Entry("function", <<Entry("a:x", Unit(Some(<<P1>>), None, None, Some("d2")))>>)>>,
      \* two units, several kinds, documentation
      <<Entry("function",
          <<Entry("a:x", Unit(None, Some(<<P2>>), Some(<<P1>>), Some("d1"))),
            Entry("b:y", Unit(None, None, Some(<<P1>>), None))>>)>>,
      \* two categories, two positions of one kind, a unit with documentation only
      <<Entry("objective", <<Entry("a:x", Unit(Some(<<P1, P2>>), None, None, Some("d2")))>>),
        Entry("function", <<Entry("b:y", Unit(Some(<<>>), None, None, Some("d2")))>>)>>,
      \* only empty units
      <<Entry("function",
          <<Entry("a:x", Unit(Some(<<>>), Some(<<>>), Some(<<>>), Some(""))),
            Entry("b:y", EmptyUnit)>>)>>,
      \* an empty unit next to a reference
      <<Entry("objective",
          <<Entry("b:y", Unit(None, None, Some(<<>>), None)),
            Entry("a:x", Unit(None, None, Some(<<P2>>), Some("")))>>)>>
    }

----------------------------------------------------------------------------
(* Strings that the program inspects character by character are sequences  *)
(* of one-character strings.  An IdentityNode is an optional namespace and  *)
(* a path already joined with "/".                                          *)

DefaultNamespace == <<"m", "i", "n", "e", "c", "r", "a", "f", "t">>

getNamespace(id) == IF id.namespace = None THEN DefaultNamespace ELSE id.namespace[1]

toString(id) == getNamespace(id) \o <<":">> \o id.path

IdAX == [namespace |-> Some(<<"a">>), path |-> <<"x">>]
IdBY == [namespace |-> Some(<<"b">>), path |-> <<"y">>]

\* service.getId(service.parseUri(definitionUri)): the category and identity
\* of a document the service knows, undefined (None) otherwise
getId(definitionUri) ==
    IF definitionUri = Some("file:///a") THEN Some([category |-> "function", id |-> IdAX])
    ELSE IF definitionUri = Some("file:///b") THEN Some([category |-> "advancement", id |-> IdBY])
    ELSE None

----------------------------------------------------------------------------
(* getCacheVisibilities(visibility, definitionType, definitionID) *)

getCacheVisibilities_publicStar(visibility, definitionType, definitionID) ==
    IF visibility = "private"
    THEN <<[type |-> definitionType, pattern |-> toString(definitionID)]>>
    ELSE IF visibility = "internal"
    THEN LET namespace == getNamespace(definitionID)
         IN <<[type |-> "*", pattern |-> namespace \o <<":", "*", "*">>]>>
            \o (IF namespace # DefaultNamespace
                THEN <<[type |-> "*", pattern |-> DefaultNamespace \o <<":", "*", "*">>]>>
                ELSE <<>>)
    ELSE IF visibility = "public"
    THEN <<[type |-> "*", pattern |-> <<"*">>]>>
    ELSE <<>>

getCacheVisibilities(visibility, definitionType, definitionID) ==
    IF visibility = "private"
    THEN <<[type |-> definitionType, pattern |-> toString(definitionID)]>>
    ELSE IF visibility = "internal"
    THEN LET namespace == getNamespace(definitionID)
         IN <<[type |-> "*", pattern |-> namespace \o <<":", "*", "*">>]>>
            \o (IF namespace # DefaultNamespace
                THEN <<[type |-> "*", pattern |-> DefaultNamespace \o <<":", "*", "*">>]>>
                ELSE <<>>)
    ELSE IF visibility = "public"
    THEN <<[type |-> "*", pattern |-> <<"*", "*">>]>>
    ELSE <<>>

----------------------------------------------------------------------------
(* new RegExp(`^${pattern.replace(...)...}$`).test(forID.toString()) *)

\* s.replace(/tok/g, rep) for a literal token: leftmost matches, not overlapping
RECURSIVE replace(_, _, _)
replace(s, tok, rep) ==
    IF Len(s) < Len(tok) THEN s
    ELSE IF SubSeq(s, 1, Len(tok)) = tok
    THEN rep \o replace(SubSeq(s, Len(tok) + 1, Len(s)), tok, rep)
    ELSE <<Head(s)>> \o replace(Tail(s), tok, rep)

\* regexSource that escapes the dots of the pattern (as the class [.])
regexSource_escaped(pattern) ==
    <<"^">>
    \o replace(replace(replace(replace(
            replace(pattern, <<".">>, <<"[", ".", "]">>),
            <<"?">>, <<"[", "^", ":", "/", "]">>),
            <<"*", "*", "/">>, <<".", "{", "0", ",", "}">>),
            <<"*", "*">>, <<".", "{", "0", ",", "}">>),
            <<"*">>, <<"[", "^", ":", "/", "]", "{", "0", ",", "}">>)
    \o <<"$">>

\* the source text handed to the RegExp constructor
regexSource(pattern) ==
    <<"^">>
    \o replace(replace(replace(replace(pattern,
            <<"?">>, <<"[", "^", ":", "/", "]">>),
            <<"*", "*", "/">>, <<".", "{", "0", ",", "}">>),
            <<"*", "*">>, <<".", "{", "0", ",", "}">>),
            <<"*">>, <<"[", "^", ":", "/", "]", "{", "0", ",", "}">>)
    \o <<"$">>

\* The regular expression a source text denotes: a sequence of terms, each
\* an assertion (^ or $) or an atom (a character, `.`, or a class `[...]`)
\* that a following `{0,}` lets repeat.
RECURSIVE RegExp(_)
RegExp(src) ==
    IF src = <<>> THEN <<>>
    ELSE LET c == Head(src)
             close == CHOOSE k \in 2..Len(src) :
                         src[k] = "]" /\ \A j \in 2..(k - 1) : src[j] # "]"
             atomLen == IF c = "[" THEN close ELSE 1
             neg == c = "[" /\ src[2] = "^"
             atom == IF c = "^" THEN [kind |-> "bol", neg |-> FALSE, set |-> {}]
                     ELSE IF c = "$" THEN [kind |-> "eol", neg |-> FALSE, set |-> {}]
                     ELSE IF c = "." THEN [kind |-> "set", neg |-> TRUE, set |-> {}]
                     ELSE IF c = "["
                     THEN [kind |-> "set", neg |-> neg,
                           set |-> {src[j] : j \in (IF neg THEN 3 ELSE 2)..(close - 1)}]
                     ELSE [kind |-> "set", neg |-> FALSE, set |-> {c}]
             rest == SubSeq(src, atomLen + 1, Len(src))
             many == Len(rest) >= 4 /\ SubSeq(rest, 1, 4) = <<"{", "0", ",", "}">>
         IN <<[kind |-> atom.kind, neg |-> atom.neg, set |-> atom.set, many |-> many]>>
            \o RegExp(IF many THEN SubSeq(rest, 5, Len(rest)) ELSE rest)

\* the terms match s from index i on
RECURSIVE matchFrom(_, _, _)
matchFrom(terms, s, i) ==
    IF terms = <<>> THEN TRUE
    ELSE LET term == Head(terms)
             accepts == i <= Len(s) /\ ((s[i] \in term.set) # term.neg)
         IN IF term.kind = "bol" THEN i = 1 /\ matchFrom(Tail(terms), s, i)
            ELSE IF term.kind = "eol" THEN i = Len(s) + 1 /\ matchFrom(Tail(terms), s, i)
            ELSE IF term.many
            THEN matchFrom(Tail(terms), s, i) \/ (accepts /\ matchFrom(terms, s, i + 1))
            ELSE accepts /\ matchFrom(Tail(terms), s, i + 1)

\* regex.test(s)
test(regex, s) == \E i \in 1..(Len(s) + 1) : matchFrom(regex, s, i)

----------------------------------------------------------------------------
(* testID(service, visibility = [], forType, forID, definitionUri, config) *)

Config(defaultVisibility) == [env |-> [defaultVisibility |-> defaultVisibility]]

\* config.env.defaultVisibility: a tier, a CacheVisibility or an array of them
Tier(t) == [typeof |-> "string", tier |-> t, isArray |-> FALSE, rules |-> <<>>]
Rule(v) == [typeof |-> "object", tier |-> "", isArray |-> FALSE, rules |-> <<v>>]
Rules(vs) == [typeof |-> "object", tier |-> "", isArray |-> TRUE, rules |-> vs]

\* what a call does: it returns a boolean, or it throws
Returns(b) == [threw |-> FALSE, value |-> b]
RangeError == [threw |-> TRUE, value |-> FALSE]

testVisibility_anyType(visibility, forType, forID) ==
    test(RegExp(regexSource(visibility.pattern)), toString(forID))

testVisibility_typeOnly(visibility, forType, forID) ==
    visibility.type = "*" \/ visibility.type = forType

\* the call with a single CacheVisibility (lines 397-405)
testVisibility(visibility, forType, forID) ==
    IF visibility.type # "*" /\ visibility.type # forType THEN FALSE
    ELSE test(RegExp(regexSource(visibility.pattern)), toString(forID))

some_every(visibility, forType, forID) ==
    \A i \in 1..Len(visibility) : testVisibility(visibility[i], forType, forID)

\* visibility.some(v => testID(service, v, ...))
some(visibility, forType, forID) ==
    \E i \in 1..Len(visibility) : testVisibility(visibility[i], forType, forID)

testID_unresolvedHidden(visibility, forType, forID, definitionUri, config) ==
    LET array == IF visibility = None THEN <<>> ELSE visibility[1]
        defaultConfig == config.env.defaultVisibility
        defIDResult == getId(definitionUri)
    IN IF array # <<>> THEN Returns(some(array, forType, forID))
       ELSE IF defaultConfig.typeof = "object"
       THEN IF ~defaultConfig.isArray
            THEN Returns(testVisibility(defaultConfig.rules[1], forType, forID))
            ELSE IF defaultConfig.rules # <<>>
            THEN Returns(some(defaultConfig.rules, forType, forID))
            ELSE RangeError
       ELSE IF defIDResult = None THEN Returns(FALSE)
       ELSE LET derived == getCacheVisibilities(defaultConfig.tier,
                               defIDResult[1].category, defIDResult[1].id)
            IN IF derived # <<>> THEN Returns(some(derived, forType, forID))
               ELSE RangeError

testID_emptyIsPublic(visibility, forType, forID, definitionUri, config) ==
    LET array == IF visibility = None THEN <<>> ELSE visibility[1]
    IN IF array # <<>> THEN Returns(some(array, forType, forID))
       ELSE Returns(TRUE)

\* The call with an array (lines 376-396).  A call with an empty array whose
\* default is again an empty array repeats itself with the same arguments:
\* it never returns, and the engine throws a RangeError when the stack is
\* exhausted.
testID(visibility, forType, forID, definitionUri, config) ==
    LET array == IF visibility = None THEN <<>> ELSE visibility[1]
        defaultConfig == config.env.defaultVisibility
        defIDResult == getId(definitionUri)
    IN IF array # <<>> THEN Returns(some(array, forType, forID))
       ELSE IF defaultConfig.typeof = "object"
       THEN IF ~defaultConfig.isArray
            THEN Returns(testVisibility(defaultConfig.rules[1], forType, forID))
            ELSE IF defaultConfig.rules # <<>>
            THEN Returns(some(defaultConfig.rules, forType, forID))
            ELSE RangeError
       ELSE IF defIDResult = None THEN Returns(TRUE)
       ELSE LET derived == getCacheVisibilities(defaultConfig.tier,
                               defIDResult[1].category, defIDResult[1].id)
            IN IF derived # <<>> THEN Returns(some(derived, forType, forID))
               ELSE RangeError

----------------------------------------------------------------------------
(* getCacheForID(service, forType, forID, config) *)

rfdc_sameObjects(h, c) == [heap |-> h, cache |-> c]

\* rfdc()(cache): a deep clone, every position is a new object
rfdc(h, c) == Alloc(h, View(h, c))

getCacheForID_keepHidden(h, c, forType, forID, config) ==
    LET a == rfdc(h, c)
        kept ==
            [ti \in 1..Len(a.cache) |->
                [key |-> a.cache[ti].key,
                 val |-> SelectSeq(a.cache[ti].val, LAMBDA e :
                            ~(ArrLen(e.val, "dcl") = 0 /\ ArrLen(e.val, "def") = 0))]]
    IN [heap |-> a.heap,
        ans |-> SelectSeq(kept, LAMBDA category : category.val # <<>>),
        threw |-> FALSE]

\* The positions that the filters drop stay in the heap as garbage.
\* `threw`: a call of testID threw, and so did getCacheForID.
getCacheForID(h, c, forType, forID, config) ==
    LET a == rfdc(h, c)
        outcome(r) == testID(a.heap[r].visibility, forType, forID, a.heap[r].uri, config)
        trimPositions(unit, t) ==
            IF unit[t] = None THEN None
            ELSE Some(SelectSeq(unit[t][1], LAMBDA r : outcome(r).value))
        trimmed ==
            [ti \in 1..Len(a.cache) |->
                [key |-> a.cache[ti].key,
                 val |-> [ui \in 1..Len(a.cache[ti].val) |->
                    LET unit == a.cache[ti].val[ui].val
                    IN [key |-> a.cache[ti].val[ui].key,
                        val |-> [unit EXCEPT !.dcl = trimPositions(unit, "dcl"),
                                             !.def = trimPositions(unit, "def")]]]]]
        kept ==
            [ti \in 1..Len(trimmed) |->
                [key |-> trimmed[ti].key,
                 val |-> SelectSeq(trimmed[ti].val, LAMBDA e :
                            ~(ArrLen(e.val, "dcl") = 0 /\ ArrLen(e.val, "def") = 0))]]
    IN [heap |-> a.heap,
        ans |-> SelectSeq(kept, LAMBDA category : category.val # <<>>),
        threw |-> \E sl \in Range(UnitSlots(a.cache)), t \in {"dcl", "def"} :
                     \E r \in Range(Arr(UnitAt(a.cache, sl), t)) : outcome(r).threw]

----------------------------------------------------------------------------
(* getCacheFromOffset(cache, offset) and getCompletions(cache, type, start, *)
(* end)                                                                     *)

\* what the loops of getCacheFromOffset visit, in their order: for every
\* position its type, its id and its range
Visited(h, c) ==
    Flatten([ti \in 1..Len(c) |->
        Flatten([ui \in 1..Len(c[ti].val) |->
            Flatten([k \in 1..Len(CacheUnitPositionTypes) |->
                LET arr == Arr(c[ti].val[ui].val, CacheUnitPositionTypes[k])
                IN [i \in 1..Len(arr) |->
                      [type |-> c[ti].key, id |-> c[ti].val[ui].key,
                       start |-> h[arr[i]].start, end |-> h[arr[i]].end]]])])])

getCacheFromOffset_endExclusive(h, c, offset) ==
    LET found == SelectSeq(Visited(h, c),
                           LAMBDA ele : ele.start <= offset /\ offset < ele.end)
    IN IF found = <<>> THEN None ELSE Some(Head(found))

\* None is undefined
getCacheFromOffset(h, c, offset) ==
    LET found == SelectSeq(Visited(h, c),
                           LAMBDA ele : ele.start <= offset /\ offset <= ele.end)
    IN IF found = <<>> THEN None ELSE Some(Head(found))

getCompletions_documentedOnly(c, type, start, end) ==
    LET category == SelectSeq(getSafeCategory(c, type), LAMBDA e : HasDoc(e.val))
    IN [i \in 1..Len(category) |->
          [label |-> category[i].key, start |-> start, end |-> end,
           documentation |->
              Some([kind |-> "markdown", value |-> category[i].val.doc[1]])]]

\* a suggestion without documentation has documentation None
getCompletions(c, type, start, end) ==
    LET category == getSafeCategory(c, type)
    IN [i \in 1..Len(category) |->
          [label |-> category[i].key, start |-> start, end |-> end,
           documentation |->
              IF HasDoc(category[i].val)
              THEN Some([kind |-> "markdown", value |-> category[i].val.doc[1]])
              ELSE None]]

----------------------------------------------------------------------------
(* The state machine *)

NoLast ==
    [op |-> "init", addition |-> None, uri |-> None, type |-> "", id |-> "",
     mapping |-> None, unstamped |-> FALSE, changed |-> FALSE,
     forType |-> "", forID |-> None, config |-> None,
     offset |-> 0, range |-> None, answer |-> <<>>,
     prevOp |-> "", prevUri |-> None, prevChanged |-> FALSE]

\* no call of the visibility resolver
NoVis ==
    [phase |-> "idle", tier |-> "", definitionType |-> "function",
     definitionID |-> IdAX, visibility |-> None, forType |-> "function",
     forID |-> IdAX, definitionUri |-> None, config |-> Config(Tier("public")),
     result |-> Returns(FALSE)]

Did(op, h, c) ==
    [NoLast EXCEPT !.op = op, !.changed = View(h, c) # View(heap, cache),
                   !.prevOp = last.op, !.prevUri = last.uri,
                   !.prevChanged = last.changed]

Snapshot == [heap |-> heap, cache |-> cache, override |-> override, result |-> result]

\* lastDoc once units have been deleted from the cache
Forget(ld, c) ==
    [k \in Types \X Ids |-> IF HasUnit(c, k[1], k[2]) THEN ld[k] ELSE None]

Init ==
    /\ heap = <<>>
    /\ cache = <<>>
    /\ override = <<>>
    /\ pre = [heap |-> <<>>, cache |-> <<>>, override |-> <<>>, result |-> <<>>]
    /\ last = NoLast
    /\ lastDoc = [k \in Types \X Ids |-> None]
    /\ nOps = 0
    /\ nParses = 0
    /\ result = <<>>
    /\ queried = "no"
    /\ budget = MaxOps
    /\ vis = NoVis
    /\ opened = <<>>

\* A document is parsed: a new document-local cache replaces the old one
Parse(lit) ==
    /\ nParses < MaxParses
    /\ LET a == Alloc(heap, lit)
           r == Canon(a.heap, a.cache, cache, result)
       IN /\ heap' = r.heap
          /\ override' = r.override
          /\ cache' = r.cache
          /\ result' = r.result
    /\ pre' = Snapshot
    /\ last' = Did("parse", heap, cache)
    /\ nParses' = nParses + 1
    /\ UNCHANGED <<opened, lastDoc, nOps, queried, budget, vis>>

Merge(addition) ==
    /\ nOps < budget
    /\ LET r == combineCache(heap, cache, override, addition)
       IN /\ heap' = r.heap
          /\ cache' = r.ans
          /\ last' = [Did("combineCache", r.heap, r.ans) EXCEPT
                          !.addition = addition, !.unstamped = r.unstamped]
    /\ lastDoc' = [k \in Types \X Ids |->
                     IF HasUnit(override, k[1], k[2])
                        /\ HasDoc(GetUnit(override, k[1], k[2]))
                     THEN GetUnit(override, k[1], k[2]).doc
                     ELSE lastDoc[k]]
    /\ pre' = Snapshot
    /\ nOps' = nOps + 1
    /\ UNCHANGED <<opened, override, nParses, result, queried, budget, vis>>

Remap(mapping) ==
    /\ nOps < budget
    /\ LET a == remapCachePosition(heap, cache, mapping)
           r == Canon(a.heap, override, a.cache, result)
       IN /\ heap' = r.heap
          /\ override' = r.override
          /\ cache' = r.cache
          /\ result' = r.result
          /\ last' = [Did("remapCachePosition", r.heap, r.cache) EXCEPT
                          !.mapping = Some(mapping)]
    /\ pre' = Snapshot
    /\ nOps' = nOps + 1
    /\ UNCHANGED <<opened, lastDoc, nParses, queried, budget, vis>>

RemoveByDocument(uri) ==
    /\ nOps < budget
    /\ LET r == Canon(heap, override, removeCachePosition(heap, cache, uri), result)
       IN /\ heap' = r.heap
          /\ override' = r.override
          /\ cache' = r.cache
          /\ result' = r.result
          /\ last' = [Did("removeCachePosition", r.heap, r.cache) EXCEPT
                          !.uri = Some(uri)]
    /\ pre' = Snapshot
    /\ nOps' = nOps + 1
    /\ UNCHANGED <<opened, lastDoc, nParses, queried, budget, vis>>

RemoveUnit(type, id) ==
    /\ nOps < budget
    /\ LET r == Canon(heap, override, removeCacheUnit(cache, type, id), result)
       IN /\ heap' = r.heap
          /\ override' = r.override
          /\ cache' = r.cache
          /\ result' = r.result
          /\ lastDoc' = Forget(lastDoc, r.cache)
          /\ last' = [Did("removeCacheUnit", r.heap, r.cache) EXCEPT
                          !.type = type, !.id = id]
    /\ pre' = Snapshot
    /\ nOps' = nOps + 1
    /\ UNCHANGED <<opened, nParses, queried, budget, vis>>

Trim ==
    /\ nOps < budget
    /\ LET r == Canon(heap, override, trimCache(cache), result)
       IN /\ heap' = r.heap
          /\ override' = r.override
          /\ cache' = r.cache
          /\ result' = r.result
          /\ lastDoc' = Forget(lastDoc, r.cache)
          /\ last' = Did("trimCache", r.heap, r.cache)
    /\ pre' = Snapshot
    /\ nOps' = nOps + 1
    /\ UNCHANGED <<opened, nParses, queried, budget, vis>>

Next ==
    \/ \E lit \in LocalCaches : Parse(lit)
    \/ \E addition \in {None} \cup {Some(a) : a \in Additions} : Merge(addition)
    \/ \E mapping \in Mappings : Remap(mapping)
    \/ \E uri \in Uris : RemoveByDocument(uri)
    \/ \E type \in Types, id \in Ids : RemoveUnit(type, id)
    \/ Trim

Spec == Init /\ [][Next]_vars

----------------------------------------------------------------------------
(* The visibility resolver on its own: getCacheVisibilities and testID are  *)
(* pure, so a behaviour is one call, with arguments drawn from the sets     *)
(* below.                                                                   *)

FileTypes == {"function", "advancement"}
Tiers == {"private", "internal", "public"}

Namespaces ==
    {None, Some(<<"a">>), Some(<<"b">>), Some(<<"a", ".", "b">>),
     Some(<<"a", "x", "b">>), Some(DefaultNamespace)}
Paths == {<<"x">>, <<"y">>, <<"x", "/", "y">>}
Identities == [namespace : Namespaces, path : Paths]

SeqsUpTo(S, n) == UNION {[1..k -> S] : k \in 0..n}

\* the characters patterns are written with, and the patterns
GlobChars == {"a", ":", "/", ".", "?", "*"}
Patterns ==
    SeqsUpTo(GlobChars, MaxPattern)
    \cup {<<"f", "o", "o", ":", "*", "*">>, <<"f", "o", "o", ":", "*">>,
          <<"?", "o", "o", ":", "b", "a", "r">>}

\* the identities the patterns are tested against
GlobIdentities ==
    [namespace : {Some(<<"a">>), Some(<<"a", "a">>), Some(<<".">>),
                  Some(<<"f", "o", "o">>), Some(<<"f", "o", "o", "o">>)},
     path : SeqsUpTo({"a", "/"}, 2)
            \cup {<<".">>, <<"b", "a", "r">>, <<"b", "a", "r", "/", "b", "a", "z">>}]

Configs ==
    {Config(Tier(t)) : t \in Tiers}
    \cup {Config(Rules(PrivateAX)),
          Config(Rules(getCacheVisibilities("internal", "function", IdBY))),
          Config(Rule([type |-> "*", pattern |-> <<"a", ":", "*">>])),
          Config(Rules(<<>>))}

DefinitionUris == {None, Some("file:///a"), Some("file:///b"), Some("file:///c")}

\* a tier is declared: its rules are derived, then tested
TierCalls ==
    {[NoVis EXCEPT !.phase = "derive", !.tier = tier, !.definitionType = dt,
                   !.definitionID = di, !.forType = ft, !.forID = fi] :
        tier \in Tiers, dt \in FileTypes, di \in Identities,
        ft \in FileTypes, fi \in Identities}

\* a single rule that applies to every category is tested
GlobCalls ==
    {[NoVis EXCEPT !.phase = "test",
                   !.visibility = Some(<<[type |-> "*", pattern |-> p]>>),
                   !.forID = fi] :
        p \in Patterns, fi \in GlobIdentities}

\* a position without rules is tested: the default visibility decides
DefaultCalls ==
    {[NoVis EXCEPT !.phase = "test", !.visibility = v, !.forType = ft,
                   !.forID = fi, !.definitionUri = du, !.config = cfg] :
        v \in {None, Some(<<>>)}, ft \in FileTypes, fi \in Identities,
        du \in DefinitionUris, cfg \in Configs}

\* the rules that recorded rule sets are made of
RulePatterns ==
    {<<"*", "*">>, <<"a", ":", "*">>, <<"a", ":", "x">>, <<"b", ":", "*", "*">>}
RulePool == [type : {"*"} \cup FileTypes, pattern : RulePatterns]
RuleSets == UNION {[1..n -> RulePool] : n \in 1..MaxRules}

\* a position with rules is tested
RuleSetCalls ==
    {[NoVis EXCEPT !.phase = "test", !.visibility = Some(v), !.forType = ft,
                   !.forID = fi, !.definitionUri = du, !.config = cfg] :
        v \in RuleSets, ft \in FileTypes,
        fi \in {IdAX, IdBY, [namespace |-> Some(<<"a">>), path |-> <<"x", "/", "y">>]},
        du \in {None, Some("file:///a")}, cfg \in Configs}

\* a single rule whose pattern holds dots is tested
DotPatterns ==
    {<<"a", ".", "b", ":", "c">>, <<"a", ".", "b", ":", "*">>,
     <<".", ".", ".", ":", "c">>}
DotIdentities ==
    [namespace : {Some(<<"a", ".", "b">>), Some(<<"a", "x", "b">>),
                  Some(<<"a", "b">>), Some(<<"a", "x", "x", "b">>)},
     path : {<<"c">>, <<"c", "/", "c">>}]
DotCalls ==
    {[NoVis EXCEPT !.phase = "test",
                   !.visibility = Some(<<[type |-> "*", pattern |-> p]>>),
                   !.forID = fi] :
        p \in DotPatterns, fi \in DotIdentities}

InitVis ==
    /\ heap = <<>>
    /\ cache = <<>>
    /\ override = <<>>
    /\ pre = [heap |-> <<>>, cache |-> <<>>, override |-> <<>>, result |-> <<>>]
    /\ last = NoLast
    /\ lastDoc = [k \in Types \X Ids |-> None]
    /\ nOps = 0
    /\ nParses = 0
    /\ result = <<>>
    /\ queried = "no"
    /\ budget = 0
    /\ vis \in TierCalls \cup GlobCalls \cup DefaultCalls \cup RuleSetCalls
                 \cup DotCalls
    /\ opened = <<>>

Derive ==
    /\ vis.phase = "derive"
    /\ vis' = [vis EXCEPT
                 !.visibility = Some(getCacheVisibilities(vis.tier,
                                        vis.definitionType, vis.definitionID)),
                 !.phase = "test"]
    /\ UNCHANGED <<opened, heap, cache, override, pre, last, lastDoc, nOps, nParses,
                   result, queried, budget>>

TestID ==
    /\ vis.phase = "test"
    /\ vis' = [vis EXCEPT
                 !.result = testID(vis.visibility, vis.forType, vis.forID,
                                   vis.definitionUri, vis.config),
                 !.phase = "done"]
    /\ UNCHANGED <<opened, heap, cache, override, pre, last, lastDoc, nOps, nParses,
                   result, queried, budget>>

NextVis == Derive \/ TestID

SpecVis == InitVis /\ [][NextVis]_vars

----------------------------------------------------------------------------
(* The cache with a caller that asks for the view of one identity, keeps   *)
(* the result and may write to it                                          *)

\* a document-local cache that declares the function a:x as private
DeclAX == <<Entry("function", <<Entry("a:x", Unit(Some(<<P2>>), None, None, None))>>)>>

\* the default visibilities of the callers
QueryConfigs ==
    {Config(Tier("public")), Config(Tier("private")), Config(Rules(<<>>))}

\* what a caller writes into a position of a result
Written == 7

InitQuery ==
    /\ heap = <<>>
    /\ cache = <<>>
    /\ override = <<>>
    /\ pre = [heap |-> <<>>, cache |-> <<>>, override |-> <<>>, result |-> <<>>]
    /\ last = NoLast
    /\ lastDoc = [k \in Types \X Ids |-> None]
    /\ nOps = 0
    /\ nParses = 0
    /\ result = <<>>
    /\ queried = "no"
    /\ budget = MaxQueryOps
    /\ vis = NoVis
    /\ opened = <<>>

GetForID(forType, forID, config) ==
    /\ queried = "no"
    /\ \E g \in {getCacheForID(heap, cache, forType, forID, config)} :
       \E r \in {IF g.threw THEN Canon(heap, override, cache, result)
                  ELSE Canon(g.heap, override, cache, g.ans)} :
          /\ heap' = r.heap
          /\ override' = r.override
          /\ cache' = r.cache
          /\ result' = r.result
          /\ queried' = IF g.threw THEN "threw" ELSE "returned"
          /\ last' = [Did("getCacheForID", r.heap, r.cache) EXCEPT
                          !.forType = forType, !.forID = Some(forID),
                          !.config = Some(config)]
    /\ pre' = Snapshot
    /\ UNCHANGED <<opened, lastDoc, nOps, nParses, budget, vis>>

\* the caller assigns to a field of a position of the result
WriteResult(r) ==
    /\ queried = "returned"
    /\ r \in Addrs(result)
    /\ heap' = [heap EXCEPT ![r].start = Written]
    /\ queried' = "written"
    /\ last' = Did("writeResult", heap', cache)
    /\ pre' = Snapshot
    /\ UNCHANGED <<opened, cache, override, result, lastDoc, nOps, nParses, budget, vis>>

NextQuery ==
    \/ \E lit \in LocalCaches \cup {DeclAX} : Parse(lit)
    \/ \E addition \in {None} \cup {Some(a) : a \in Additions} : Merge(addition)
    \/ \E mapping \in Mappings : Remap(mapping)
    \/ \E uri \in Uris : RemoveByDocument(uri)
    \/ \E type \in Types, id \in Ids : RemoveUnit(type, id)
    \/ Trim
    \/ \E forType \in FileTypes, forID \in {IdAX, IdBY}, config \in QueryConfigs :
          GetForID(forType, forID, config)
    \/ \E r \in 1..Len(heap) : WriteResult(r)

SpecQuery == InitQuery /\ [][NextQuery]_vars

----------------------------------------------------------------------------
(* The cache with a caller that reads it: a point query or a list of       *)
(* completions counts as an operation of the behaviour                     *)

Offsets == 0..MaxOffset

\* the insertion ranges of the completions
Insertions == {[start |-> 0, end |-> 0], [start |-> 1, end |-> 3]}

InitRead ==
    /\ heap = <<>>
    /\ cache = <<>>
    /\ override = <<>>
    /\ pre = [heap |-> <<>>, cache |-> <<>>, override |-> <<>>, result |-> <<>>]
    /\ last = NoLast
    /\ lastDoc = [k \in Types \X Ids |-> None]
    /\ nOps = 0
    /\ nParses = 0
    /\ result = <<>>
    /\ queried = "no"
    /\ budget = MaxReadOps
    /\ vis = NoVis
    /\ opened = <<>>

PointQuery(offset) ==
    /\ nOps < budget
    /\ last' = [Did("getCacheFromOffset", heap, cache) EXCEPT
                    !.offset = offset,
                    !.answer = getCacheFromOffset(heap, cache, offset)]
    /\ pre' = Snapshot
    /\ nOps' = nOps + 1
    /\ UNCHANGED <<opened, heap, cache, override, lastDoc, nParses, result, queried,
                   budget, vis>>

Completions(type, insertion) ==
    /\ nOps < budget
    /\ last' = [Did("getCompletions", heap, cache) EXCEPT
                    !.type = type, !.range = Some(insertion),
                    !.answer = getCompletions(cache, type, insertion.start,
                                              insertion.end)]
    /\ pre' = Snapshot
    /\ nOps' = nOps + 1
    /\ UNCHANGED <<opened, heap, cache, override, lastDoc, nParses, result, queried,
                   budget, vis>>

NextRead ==
    \/ \E lit \in LocalCaches : Parse(lit)
    \/ \E addition \in {None} \cup {Some(a) : a \in Additions} : Merge(addition)
    \/ \E mapping \in Mappings : Remap(mapping)
    \/ \E uri \in Uris : RemoveByDocument(uri)
    \/ \E type \in Types, id \in Ids : RemoveUnit(type, id)
    \/ Trim
    \/ \E offset \in Offsets : PointQuery(offset)
    \/ \E type \in Types, insertion \in Insertions : Completions(type, insertion)

SpecRead == InitRead /\ [][NextRead]_vars

----------------------------------------------------------------------------
(* Properties of combineCache *)

Merged == last.op = "combineCache"

\* the unit of (type, id) in c, or {} when there is none
UnitOr(c, type, id) == IF HasUnit(c, type, id) THEN GetUnit(c, type, id) ELSE EmptyUnit

\* a unit with a position or a non-empty documentation, and the (type, id)
\* pairs of the units of the override that have one
HasContent(unit) ==
    \/ \E t \in Kinds : unit[t] # None /\ unit[t] # Some(<<>>)
    \/ unit.doc # None /\ unit.doc # Some("")

Participants(ov) ==
    {k \in Types \X Ids : HasUnit(ov, k[1], k[2]) /\ HasContent(GetUnit(ov, k[1], k[2]))}

\* C1: after a merge, for every participating unit of the override and every
\* kind, the base sequence is the base sequence before the merge followed by
\* the override's positions of that kind in the override's order, so its
\* length is the sum of the two lengths.
C1_MergeAdditive ==
    Merged =>
        \A k \in Participants(pre.override) : \A t \in Kinds :
            LET before == Arr(UnitOr(pre.cache, k[1], k[2]), t)
                added == Arr(GetUnit(pre.override, k[1], k[2]), t)
            IN /\ HasUnit(cache, k[1], k[2])
               /\ Arr(GetUnit(cache, k[1], k[2]), t) = before \o added
               /\ ArrLen(GetUnit(cache, k[1], k[2]), t) = Len(before) + Len(added)

C1_Witness ==
    /\ Merged
    /\ \E k \in Participants(pre.override) : \E t \in Kinds :
          /\ ArrLen(UnitOr(pre.cache, k[1], k[2]), t) > 0
          /\ ArrLen(GetUnit(pre.override, k[1], k[2]), t) > 0
          /\ ArrLen(GetUnit(cache, k[1], k[2]), t) > 1

\* C2: a merge leaves the override as it was: the same categories, units and
\* sequences, and the same fields in every position of the override.
C2_OverrideUnchanged ==
    Merged =>
        /\ override = pre.override
        /\ View(heap, override) = View(pre.heap, pre.override)

\* C3: a merge of an override whose units all have no positions and no
\* (or empty) documentation leaves the base as it was: nothing is created,
\* overwritten or cleared.
C3_EmptyOverrideNoOp ==
    (Merged /\ Participants(pre.override) = {}) =>
        /\ cache = pre.cache
        /\ View(heap, cache) = View(pre.heap, pre.cache)

C3_Witness ==
    /\ Merged
    /\ Participants(pre.override) = {}
    /\ pre.override # <<>>
    /\ \E k \in Types \X Ids :
          /\ HasUnit(pre.override, k[1], k[2])
          /\ GetUnit(pre.override, k[1], k[2]) # EmptyUnit
          /\ HasUnit(pre.cache, k[1], k[2])
          /\ HasDoc(GetUnit(pre.cache, k[1], k[2]))

\* C4: documentation is last-writer-wins.  After a merge a base unit's
\* documentation is the override unit's when that one is non-empty and is
\* otherwise what it was before; in every state it is the documentation of
\* the last merged override unit that carried one.
C4_DocLastWriterWins ==
    /\ Merged =>
          \A k \in Types \X Ids :
              HasUnit(cache, k[1], k[2]) =>
                  GetUnit(cache, k[1], k[2]).doc =
                      IF HasUnit(pre.override, k[1], k[2])
                         /\ HasDoc(GetUnit(pre.override, k[1], k[2]))
                      THEN GetUnit(pre.override, k[1], k[2]).doc
                      ELSE UnitOr(pre.cache, k[1], k[2]).doc
    /\ \A k \in Types \X Ids :
          HasUnit(cache, k[1], k[2]) => GetUnit(cache, k[1], k[2]).doc = lastDoc[k]

C4_Witness ==
    /\ Merged
    /\ \E k \in Types \X Ids :
          /\ HasUnit(pre.override, k[1], k[2])
          /\ HasDoc(GetUnit(pre.override, k[1], k[2]))
          /\ HasUnit(pre.cache, k[1], k[2])
          /\ HasDoc(GetUnit(pre.cache, k[1], k[2]))
          /\ GetUnit(pre.cache, k[1], k[2]).doc # GetUnit(pre.override, k[1], k[2]).doc
          /\ GetUnit(cache, k[1], k[2]).doc = GetUnit(pre.override, k[1], k[2]).doc

\* the positions a merge appended to the base: for every unit and kind, the
\* addresses beyond the length the sequence had before
Appended ==
    UNION {
        {Arr(GetUnit(cache, k[1], k[2]), t)[i] :
            i \in (ArrLen(UnitOr(pre.cache, k[1], k[2]), t) + 1)
                  ..ArrLen(GetUnit(cache, k[1], k[2]), t)} :
        k \in {kk \in Types \X Ids : HasUnit(cache, kk[1], kk[2])}, t \in Kinds}

\* C5: after a merge with a stamp, every appended position carries the
\* stamp's uri and the line/column the resolver gives for its start and end
\* offsets, and no position was pushed before it was stamped.
C5_AppendedAreStamped ==
    (Merged /\ last.addition # None) =>
        /\ ~last.unstamped
        /\ \A r \in Appended :
              LET a == last.addition[1]
                  p == heap[r]
              IN /\ p.uri = Some(a.uri)
                 /\ p.startLine = Some(p.start \div a.width)
                 /\ p.startChar = Some(p.start % a.width)
                 /\ p.endLine = Some(p.end \div a.width)
                 /\ p.endChar = Some(p.end % a.width)

C5_Witness ==
    /\ Merged
    /\ last.addition # None
    /\ \E r \in Appended :
          /\ pre.heap[r].uri # Some(last.addition[1].uri)
          /\ heap[r].endLine # heap[r].startLine

----------------------------------------------------------------------------
(* Properties of removeCachePosition, removeCacheUnit and trimCache *)

UnitsOf(c) == {k \in Types \X Ids : HasUnit(c, k[1], k[2])}
TypeKeys(c) == [i \in 1..Len(c) |-> c[i].key]
IdKeys(c, type) == [i \in 1..Len(Get(c, type)) |-> Get(c, type)[i].key]

\* a unit whose declaration, definition and reference sequences are all
\* absent or empty
AllEmpty(unit) == \A t \in Kinds : unit[t] = None \/ unit[t] = Some(<<>>)

\* what trim leaves behind
Trimmed(c) ==
    /\ \A k \in UnitsOf(c) : ~AllEmpty(GetUnit(c, k[1], k[2]))
    /\ \A i \in 1..Len(c) : Len(c[i].val) > 0

HoldsUri(h, c, uri) == \E r \in Range(Elements(c)) : h[r].uri = Some(uri)

\* C6: removeByDocument(d) followed by trim leaves no position of document
\* d, no unit whose three sequences are all empty and no empty category.
C6_RemoveThenTrim ==
    /\ (last.op = "trimCache" /\ last.prevOp = "removeCachePosition") =>
          /\ ~HoldsUri(heap, cache, last.prevUri[1])
          /\ Trimmed(cache)
    /\ \A uri \in Uris :
          LET c == trimCache(removeCachePosition(heap, cache, uri))
          IN ~HoldsUri(heap, c, uri) /\ Trimmed(c)

C6_Witness ==
    /\ last.op = "trimCache"
    /\ last.prevOp = "removeCachePosition"
    /\ last.prevChanged
    /\ last.changed
    /\ cache # <<>>

\* C7: trim is idempotent: a second trim changes nothing.
C7_TrimIdempotent ==
    /\ trimCache(trimCache(cache)) = trimCache(cache)
    /\ (last.op = "trimCache" /\ last.prevOp = "trimCache") =>
          /\ cache = pre.cache
          /\ View(heap, cache) = View(pre.heap, pre.cache)

C7_Witness ==
    /\ last.op = "trimCache"
    /\ last.prevOp = "trimCache"
    /\ last.prevChanged
    /\ cache # <<>>

\* C8: after trim there is no unit without positions (documentation does not
\* save it) and no empty category, and every unit that had a position is
\* kept with its sequences and documentation.
C8_TrimResult ==
    last.op = "trimCache" =>
        /\ Trimmed(cache)
        /\ UnitsOf(cache) =
              {k \in UnitsOf(pre.cache) : ~AllEmpty(GetUnit(pre.cache, k[1], k[2]))}
        /\ \A k \in UnitsOf(cache) :
              LET u == GetUnit(cache, k[1], k[2])
                  v == GetUnit(pre.cache, k[1], k[2])
              IN /\ u.doc = v.doc
                 /\ \A t \in Kinds :
                       /\ (u[t] = None) = (v[t] = None)
                       /\ Values(heap, u, t) = Values(pre.heap, v, t)

C8_Witness ==
    /\ last.op = "trimCache"
    /\ \E k \in UnitsOf(pre.cache) :
          /\ AllEmpty(GetUnit(pre.cache, k[1], k[2]))
          /\ HasDoc(GetUnit(pre.cache, k[1], k[2]))
          /\ ~HasUnit(cache, k[1], k[2])
    /\ \E k \in UnitsOf(cache) : HasDoc(GetUnit(cache, k[1], k[2]))
    /\ Len(cache) < Len(pre.cache)

\* C9: removeByDocument(d) removes exactly the positions whose uri is d: the
\* others stay in their sequences in the same order, and no unit or category
\* is removed.
C9_RemoveByDocumentExact ==
    last.op = "removeCachePosition" =>
        /\ TypeKeys(cache) = TypeKeys(pre.cache)
        /\ \A i \in 1..Len(cache) :
              IdKeys(cache, cache[i].key) = IdKeys(pre.cache, cache[i].key)
        /\ \A k \in UnitsOf(pre.cache) :
              LET u == GetUnit(cache, k[1], k[2])
                  v == GetUnit(pre.cache, k[1], k[2])
              IN /\ u.doc = v.doc
                 /\ \A t \in Kinds :
                       /\ (u[t] = None) = (v[t] = None)
                       /\ Values(heap, u, t) =
                             SelectSeq(Values(pre.heap, v, t),
                                       LAMBDA p : p.uri # last.uri)

C9_Witness ==
    /\ last.op = "removeCachePosition"
    /\ \E k \in UnitsOf(pre.cache) :
          /\ ~AllEmpty(GetUnit(pre.cache, k[1], k[2]))
          /\ AllEmpty(GetUnit(cache, k[1], k[2]))
    /\ \E r \in Range(Elements(cache)) : heap[r].uri # None

\* C10: removeUnit(type, id) deletes that unit and nothing else: the other
\* units and the categories stay as they are, and nothing is created when
\* the type or the id is absent.
C10_RemoveUnitExact ==
    last.op = "removeCacheUnit" =>
        /\ TypeKeys(cache) = TypeKeys(pre.cache)
        /\ \A i \in 1..Len(cache) :
              LET before == View(pre.heap, pre.cache)[i].val
              IN View(heap, cache)[i].val =
                    IF cache[i].key = last.type
                    THEN SelectSeq(before, LAMBDA e : e.key # last.id)
                    ELSE before
        /\ ~HasUnit(pre.cache, last.type, last.id) =>
              View(heap, cache) = View(pre.heap, pre.cache)

C10_Witness ==
    /\ last.op = "removeCacheUnit"
    /\ HasUnit(pre.cache, last.type, last.id)
    /\ ~HasUnit(cache, last.type, last.id)
    /\ HasDoc(GetUnit(pre.cache, last.type, last.id))
    /\ ~AllEmpty(GetUnit(pre.cache, last.type, last.id))
    /\ Len(Get(cache, last.type)) > 0
    /\ Len(cache) > 1

----------------------------------------------------------------------------
(* Properties of the visibility resolver *)

Tested(tier) == vis.phase = "done" /\ vis.tier = tier

SameIdentity(id1, id2) == toString(id1) = toString(id2)

\* C11: the rules derived for the tier private from a defining category and
\* a defining identity pass the test for that category with exactly that
\* identity, and for no other requesting identity and no other category.
C11_PrivateExact ==
    Tested("private") =>
        vis.result = Returns(/\ vis.forType = vis.definitionType
                             /\ SameIdentity(vis.forID, vis.definitionID))

\* C12: the rules derived for the tier internal from a defining identity of
\* namespace N pass the test for every requesting identity whose namespace
\* is N or the default namespace, in any category, and fail for every
\* other namespace; there is one rule when N is the default namespace and
\* there are two otherwise.
C12_InternalNamespace ==
    Tested("internal") =>
        /\ vis.result = Returns(getNamespace(vis.forID)
                                   \in {getNamespace(vis.definitionID), DefaultNamespace})
        /\ Len(vis.visibility[1])
              = IF getNamespace(vis.definitionID) = DefaultNamespace THEN 1 ELSE 2

\* C13: the rules derived for the tier public are the single rule with
\* pattern ** for every category, and they pass the test for every
\* requesting identity in every category.
C13_PublicEverywhere ==
    Tested("public") =>
        /\ vis.visibility = Some(<<[type |-> "*", pattern |-> <<"*", "*">>]>>)
        /\ vis.result = Returns(TRUE)

C13_Witness ==
    /\ Tested("public")
    /\ vis.result = Returns(TRUE)
    /\ vis.forType # vis.definitionType
    /\ getNamespace(vis.forID) # getNamespace(vis.definitionID)
    /\ \E i \in 1..Len(vis.forID.path) : vis.forID.path[i] = "/"

\* The reference glob matcher.  A pattern is read as tokens, the longer
\* wildcards first: **/ and ** are <**>, then * is <*>, and ? is <?>; every
\* other character stands for itself.
RECURSIVE Read(_, _, _)
Read(p, tok, sym) ==
    IF Len(p) < Len(tok) THEN p
    ELSE IF SubSeq(p, 1, Len(tok)) = tok
    THEN <<sym>> \o Read(SubSeq(p, Len(tok) + 1, Len(p)), tok, sym)
    ELSE <<Head(p)>> \o Read(Tail(p), tok, sym)

Tokens(p) ==
    Read(Read(Read(Read(p, <<"*", "*", "/">>, "<**>"), <<"*", "*">>, "<**>"),
              <<"*">>, "<*>"), <<"?">>, "<?>")

Separators == {":", "/"}

\* the tokens g match the whole of s
RECURSIVE GlobMatch(_, _)
GlobMatch(g, s) ==
    IF g = <<>> THEN s = <<>>
    ELSE IF Head(g) = "<**>"
    THEN GlobMatch(Tail(g), s) \/ (s # <<>> /\ GlobMatch(g, Tail(s)))
    ELSE IF Head(g) = "<*>"
    THEN \/ GlobMatch(Tail(g), s)
         \/ (s # <<>> /\ Head(s) \notin Separators /\ GlobMatch(g, Tail(s)))
    ELSE IF Head(g) = "<?>"
    THEN s # <<>> /\ Head(s) \notin Separators /\ GlobMatch(Tail(g), Tail(s))
    ELSE s # <<>> /\ Head(s) = Head(g) /\ GlobMatch(Tail(g), Tail(s))

\* a call of testID with a single rule that applies to every category
SingleWildcardRule ==
    /\ vis.phase = "done"
    /\ vis.visibility # None
    /\ Len(vis.visibility[1]) = 1
    /\ vis.visibility[1][1].type = "*"

\* the call with this pattern and this identity has this result
Example(pattern, id, expected) ==
    (SingleWildcardRule /\ vis.visibility[1][1].pattern = pattern
        /\ toString(vis.forID) = id)
    => vis.result = Returns(expected)

\* C14: for a single rule for every category whose pattern is written with
\* identifier characters and the tokens ?, *, ** and **/, the result of the
\* test is that of the reference glob matcher anchored at both ends; so
\* foo:** matches foo:bar/baz and foo:, foo:* matches foo:bar and not
\* foo:bar/baz, and ?oo:bar matches foo:bar and not fooo:bar.
C14_GlobReference ==
    /\ SingleWildcardRule =>
          vis.result = Returns(GlobMatch(Tokens(vis.visibility[1][1].pattern),
                                         toString(vis.forID)))
    /\ Example(<<"f", "o", "o", ":", "*", "*">>,
               <<"f", "o", "o", ":", "b", "a", "r", "/", "b", "a", "z">>, TRUE)
    /\ Example(<<"f", "o", "o", ":", "*", "*">>, <<"f", "o", "o", ":">>, TRUE)
    /\ Example(<<"f", "o", "o", ":", "*">>, <<"f", "o", "o", ":", "b", "a", "r">>, TRUE)
    /\ Example(<<"f", "o", "o", ":", "*">>,
               <<"f", "o", "o", ":", "b", "a", "r", "/", "b", "a", "z">>, FALSE)
    /\ Example(<<"?", "o", "o", ":", "b", "a", "r">>,
               <<"f", "o", "o", ":", "b", "a", "r">>, TRUE)
    /\ Example(<<"?", "o", "o", ":", "b", "a", "r">>,
               <<"f", "o", "o", "o", ":", "b", "a", "r">>, FALSE)

----------------------------------------------------------------------------
(* Properties of getCacheForID *)

CacheOperations ==
    {"combineCache", "remapCachePosition", "removeCachePosition",
     "removeCacheUnit", "trimCache"}

\* C15: getCacheForID leaves the shared cache unchanged, and its result
\* shares no object with the shared cache: a write to the result does not
\* change the shared cache, and a later merge, remap, removal by document,
\* removal of a unit or trim does not change a result already returned.
C15_ResultIndependent ==
    /\ Addrs(result) \cap (Addrs(cache) \cup Addrs(override)) = {}
    /\ last.op \in {"getCacheForID", "writeResult"}
          => View(heap, cache) = View(pre.heap, pre.cache)
    /\ last.op \in CacheOperations
          => View(heap, result) = View(pre.heap, pre.result)

C15_Witness ==
    /\ last.op = "combineCache"
    /\ last.changed
    /\ last.prevOp = "writeResult"
    /\ Addrs(result) # {}
    /\ \E r \in Addrs(result) : heap[r].start = Written

Queried == last.op = "getCacheForID" /\ queried = "returned"

\* the position passes the test of the last query
Passes(p) ==
    testID(p.visibility, last.forType, last.forID[1], p.uri, last.config[1])
        = Returns(TRUE)

\* the positions of kind t of the unit (type, id) of the cache before the
\* query that pass its test, in their order
Passing(type, id, t) ==
    SelectSeq(Values(pre.heap, UnitOr(pre.cache, type, id), t), Passes)

\* C16: the result of getCacheForID holds exactly the units of the shared
\* cache with a declaration or a definition that passes the visibility
\* test of the requesting category and identity; the dcl and def of a unit
\* it holds are the passing positions in their original order; a unit with
\* references only is absent, and no category of the result is empty.
C16_VisibleUnits ==
    Queried =>
        /\ \A type \in Types, id \in Ids :
              /\ HasUnit(result, type, id)
                    <=> (Passing(type, id, "dcl") # <<>> \/ Passing(type, id, "def") # <<>>)
              /\ HasUnit(result, type, id) =>
                    \A t \in {"dcl", "def"} :
                        Values(heap, GetUnit(result, type, id), t) = Passing(type, id, t)
        /\ \A ti \in 1..Len(result) : result[ti].val # <<>>

\* a unit is kept with fewer positions than it had, another is dropped
\* though it has positions, and a unit with references only is dropped
C16_Witness ==
    /\ Queried
    /\ \E type \in Types, id \in Ids :
          /\ HasUnit(result, type, id)
          /\ \E t \in {"dcl", "def"} :
                Len(Passing(type, id, t)) < ArrLen(UnitOr(pre.cache, type, id), t)
    /\ \E type \in Types, id \in Ids :
          /\ HasUnit(pre.cache, type, id)
          /\ ~HasUnit(result, type, id)
          /\ ArrLen(GetUnit(pre.cache, type, id), "ref") > 0

\* C17: the result of getCacheForID excludes references: no unit of the
\* result, a retained one included, carries a reference position.
C17_NoReferences ==
    Queried =>
        \A type \in Types, id \in Ids :
            HasUnit(result, type, id)
                => ArrLen(GetUnit(result, type, id), "ref") = 0

\* the shared cache after DeclAX alone has been merged into the empty cache
\* with the stamp of the document file:///a
DeclAXMerged ==
    LET a == Alloc(<<>>, DeclAX)
        m == combineCache(a.heap, <<>>, a.cache,
                          Some(CHOOSE addition \in Additions : addition.uri = "file:///a"))
    IN View(m.heap, m.ans)

PublicQueryOfDeclAX ==
    /\ Queried
    /\ View(pre.heap, pre.cache) = DeclAXMerged
    /\ PrivateAX = getCacheVisibilities("private", "function", IdAX)
    /\ last.forType = "function"
    /\ last.config = Some(Config(Tier("public")))

\* C18: a document-local cache declares the function a:x with the private
\* rules derived for (function, a:x) and is merged with the stamp of
\* document a into an empty cache.  With the default visibility public, the
\* view of (function, b:y) does not contain a:x and the view of
\* (function, a:x) contains it.
C18_PrivateEndToEnd ==
    PublicQueryOfDeclAX =>
        /\ SameIdentity(last.forID[1], IdBY) => ~HasUnit(result, "function", "a:x")
        /\ SameIdentity(last.forID[1], IdAX) => HasUnit(result, "function", "a:x")

C18_Witness ==
    /\ PublicQueryOfDeclAX
    /\ last.forID = Some(IdBY)
    /\ result = <<>>

----------------------------------------------------------------------------
(* Properties of the default visibility *)

\* a call of testID for a position without rules: absent, or an empty array
NoRules == vis.phase = "done" /\ vis.visibility \in {None, Some(<<>>)}

DefaultVisibility == vis.config.env.defaultVisibility

\* the category and the identity of the defining document, if it has them
Defining == getId(vis.definitionUri)

\* C19: the test of an empty or absent rule set has the result of the test
\* of the default visibility: of that rule set when the default is a rule
\* set, and, when it is a tier and the defining document resolves to a
\* category and an identity, of the rules derived for the tier from them.
C19_DefaultDecides ==
    NoRules =>
        /\ (DefaultVisibility.typeof = "object" /\ DefaultVisibility.isArray) =>
              vis.result = testID(Some(DefaultVisibility.rules), vis.forType,
                                  vis.forID, vis.definitionUri, vis.config)
        /\ (DefaultVisibility.typeof = "object" /\ ~DefaultVisibility.isArray) =>
              vis.result = Returns(testVisibility(DefaultVisibility.rules[1],
                                                  vis.forType, vis.forID))
        /\ (DefaultVisibility.typeof = "string" /\ Defining # None) =>
              vis.result = testID(Some(getCacheVisibilities(DefaultVisibility.tier,
                                          Defining[1].category, Defining[1].id)),
                                  vis.forType, vis.forID, vis.definitionUri, vis.config)

\* the default is the tier private and hides the position from another identity
C19_Witness ==
    /\ NoRules
    /\ DefaultVisibility = Tier("private")
    /\ Defining # None
    /\ ~SameIdentity(vis.forID, Defining[1].id)
    /\ vis.result = Returns(FALSE)

\* C20: when a position has no rules, the default visibility is a tier and
\* the identity of the defining document cannot be resolved, the test
\* returns true for every requesting category and identity and does not
\* throw.
C20_UnresolvedIsVisible ==
    (NoRules /\ DefaultVisibility.typeof = "string" /\ Defining = None)
        => vis.result = Returns(TRUE)

C20_Witness ==
    /\ NoRules
    /\ DefaultVisibility = Tier("private")
    /\ vis.definitionUri = Some("file:///c")
    /\ Defining = None
    /\ vis.result = Returns(TRUE)

----------------------------------------------------------------------------
(* Properties of the test of recorded rules *)

\* a call of testID for a position with the rules vis.visibility[1]
WithRules == vis.phase = "done" /\ vis.visibility # None /\ vis.visibility[1] # <<>>

\* C21: a single rule whose category is not the wildcard and is not the
\* requesting category fails the test, for every pattern and every
\* requesting identity, the pattern ** included.
C21_OtherCategoryFails ==
    (/\ WithRules
     /\ Len(vis.visibility[1]) = 1
     /\ vis.visibility[1][1].type \notin {"*", vis.forType})
    => vis.result = Returns(FALSE)

C21_Witness ==
    /\ WithRules
    /\ vis.visibility[1] = <<[type |-> "advancement", pattern |-> <<"*", "*">>]>>
    /\ vis.forType = "function"
    /\ vis.result = Returns(FALSE)

\* the rule passes when it is tested alone, with the requesting category and
\* identity of the call
PassesAlone(rule) ==
    testID(Some(<<rule>>), vis.forType, vis.forID, vis.definitionUri, vis.config)
        = Returns(TRUE)

\* C22: a non-empty rule set passes the test if and only if one of its
\* rules passes when tested alone with the same requesting category and
\* identity; the default visibility is not consulted: the result is the
\* same under every default visibility and for every defining document.
C22_AnyRulePasses ==
    WithRules =>
        /\ vis.result = Returns(\E i \in 1..Len(vis.visibility[1]) :
                                    PassesAlone(vis.visibility[1][i]))
        /\ \A cfg \in Configs, du \in DefinitionUris :
              testID(vis.visibility, vis.forType, vis.forID, du, cfg) = vis.result

\* one rule of two passes, and the default visibility alone would hide
C22_Witness ==
    /\ WithRules
    /\ Len(vis.visibility[1]) = 2
    /\ ~PassesAlone(vis.visibility[1][1])
    /\ PassesAlone(vis.visibility[1][2])
    /\ vis.result = Returns(TRUE)
    /\ testID(None, vis.forType, vis.forID, vis.definitionUri, vis.config)
          = Returns(FALSE)

----------------------------------------------------------------------------
(* Properties of the reads *)

\* Where the positions of a cache are: <<ti, ui, k, i>> is the i-th position
\* of the k-th kind (declarations, definitions, references) of the ui-th
\* unit of the ti-th type.
KindOrder == <<"dcl", "def", "ref">>

Places(c) ==
    UNION {UNION {UNION {{<<ti, ui, k, i>> :
                            i \in 1..ArrLen(c[ti].val[ui].val, KindOrder[k])} :
                         k \in 1..3} :
                  ui \in 1..Len(c[ti].val)} :
           ti \in 1..Len(c)}

PlacedAt(h, c, l) == h[Arr(c[l[1]].val[l[2]].val, KindOrder[l[3]])[l[4]]]

\* l comes before m in the scan
Earlier(l, m) ==
    \E n \in 1..4 : l[n] < m[n] /\ \A j \in 1..(n - 1) : l[j] = m[j]

\* the places of the positions that contain the offset of the last point query
Containing ==
    {l \in Places(cache) :
        /\ PlacedAt(heap, cache, l).start <= last.offset
        /\ last.offset <= PlacedAt(heap, cache, l).end}

\* C23: the point query returns the type, the identifier and the range of
\* the first position with start <= offset <= end in the scan of the types
\* in insertion order, the identifiers in insertion order, declarations
\* before definitions before references, and the positions in sequence
\* order; it returns nothing exactly when no position contains the offset,
\* and it does not change the cache.
C23_PointQueryFirst ==
    last.op = "getCacheFromOffset" =>
        /\ heap = pre.heap /\ cache = pre.cache
        /\ (last.answer = None) <=> (Containing = {})
        /\ \A l \in Containing :
              (\A m \in Containing : m = l \/ Earlier(l, m)) =>
                 last.answer = Some([type |-> cache[l[1]].key,
                                     id |-> cache[l[1]].val[l[2]].key,
                                     start |-> PlacedAt(heap, cache, l).start,
                                     end |-> PlacedAt(heap, cache, l).end])

\* the offset is the end of the position returned, and a position of
\* another unit contains it too
C23_Witness ==
    /\ last.op = "getCacheFromOffset"
    /\ last.answer # None
    /\ last.offset = last.answer[1].end
    /\ last.answer[1].start < last.answer[1].end
    /\ \E l \in Containing :
          <<cache[l[1]].key, cache[l[1]].val[l[2]].key>>
             # <<last.answer[1].type, last.answer[1].id>>

\* the identifiers stored under a type, in insertion order
Stored(c, type) == IF Has(c, type) THEN IdKeys(c, type) ELSE <<>>

\* C27: getCompletions returns one suggestion for every identifier stored
\* under the type, in insertion order, with the identifier as label and the
\* given start and end; it does not filter by visibility, attaches the
\* documentation exactly when the documentation of the unit is not empty,
\* returns the empty list for an absent type and does not change the cache.
C27_Completions ==
    last.op = "getCompletions" =>
        /\ heap = pre.heap /\ cache = pre.cache
        /\ [i \in 1..Len(last.answer) |-> last.answer[i].label]
              = Stored(cache, last.type)
        /\ \A i \in 1..Len(last.answer) :
              LET unit == GetUnit(cache, last.type, last.answer[i].label)
              IN /\ last.answer[i].start = last.range[1].start
                 /\ last.answer[i].end = last.range[1].end
                 /\ last.answer[i].documentation =
                       IF unit.doc \in {None, Some("")} THEN None
                       ELSE Some([kind |-> "markdown", value |-> unit.doc[1]])

\* two identifiers, one with documentation, one without, and positions
\* that a private rule restricts
C27_Witness ==
    /\ last.op = "getCompletions"
    /\ Len(last.answer) = 2
    /\ \E i, j \in 1..2 : /\ last.answer[i].documentation # None
                           /\ last.answer[j].documentation = None
    /\ last.range[1].start < last.range[1].end
    /\ \E r \in Addrs(cache) : heap[r].visibility # None

----------------------------------------------------------------------------
(* Properties of remapCachePosition *)

Remapped == last.op = "remapCachePosition"

\* the positions of the cache, as values, in iteration order
Before == Elements(View(pre.heap, pre.cache))
After == Elements(View(heap, cache))

\* the cache without the contents of its positions: categories, units,
\* documentation, and the length of every sequence
Shape(c) == MapArrays(c, LAMBDA arr : Len(arr))

\* C24: remapCachePosition replaces every position of every unit, in all
\* three sequences, by the position whose start and end are the mapping
\* applied to the old start and end; no position is skipped, added, removed
\* or reordered, no unit or category is added or removed, and every
\* position keeps its uri and its visibility.
C24_RemapEveryPosition ==
    Remapped =>
        /\ Shape(cache) = Shape(pre.cache)
        /\ Len(After) = Len(Before)
        /\ \A i \in 1..Len(After) :
              /\ After[i].start = MapOffset(last.mapping[1], Before[i].start)
              /\ After[i].end = MapOffset(last.mapping[1], Before[i].end)
              /\ After[i].uri = Before[i].uri
              /\ After[i].visibility = Before[i].visibility

\* a remap of two units, with two positions in one sequence, that moves one
\* position and leaves another where it was, among them a stamped position
\* and a position with rules
C24_Witness ==
    /\ Remapped
    /\ Len(UnitSlots(cache)) >= 2
    /\ \E sl \in Range(UnitSlots(cache)), t \in Kinds :
          ArrLen(UnitAt(cache, sl), t) >= 2
    /\ \E i, j \in 1..Len(After) :
          /\ After[i].start # Before[i].start
          /\ After[j].start = Before[j].start /\ After[j].end # Before[j].end
    /\ \E i \in 1..Len(After) : After[i].uri # None
    /\ \E i \in 1..Len(After) : After[i].visibility # None

\* the line and column of an offset in the document of a uri
LineColumn(uri, offset) ==
    getPosition(CHOOSE a \in Additions : a.uri = uri, offset)

----------------------------------------------------------------------------
(* The cache operations when a caller hands combineCache a document-local  *)
(* cache with a position whose start lies after its end                     *)

\* a definition of the function a:x with start 4 and end 2
Inverted ==
    <<Entry("function", <<Entry("a:x", Unit(None, Some(<<Pos(4, 2, None)>>), None, None))>>)>>

InitBoundary ==
    /\ heap = <<>>
    /\ cache = <<>>
    /\ override = <<>>
    /\ pre = [heap |-> <<>>, cache |-> <<>>, override |-> <<>>, result |-> <<>>]
    /\ last = NoLast
    /\ lastDoc = [k \in Types \X Ids |-> None]
    /\ nOps = 0
    /\ nParses = 0
    /\ result = <<>>
    /\ queried = "no"
    /\ budget = MaxBoundaryOps
    /\ vis = NoVis
    /\ opened = <<>>

NextBoundary ==
    \/ \E lit \in LocalCaches \cup {Inverted} : Parse(lit)
    \/ \E addition \in {None} \cup {Some(a) : a \in Additions} : Merge(addition)
    \/ \E mapping \in Mappings : Remap(mapping)
    \/ \E uri \in Uris : RemoveByDocument(uri)
    \/ \E type \in Types, id \in Ids : RemoveUnit(type, id)
    \/ Trim

SpecBoundary == InitBoundary /\ [][NextBoundary]_vars

\* C26: every position stored in the shared cache has start <= end, in
\* every state that combineCache, remapCachePosition, removeCachePosition,
\* removeCacheUnit and trimCache reach: combineCache rejects an override
\* that holds a position with start > end and does not insert it.
C26_StartNotAfterEnd ==
    \A r \in Addrs(cache) : heap[r].start <= heap[r].end

----------------------------------------------------------------------------
(* Properties of a sequence of merges *)

\* C28: combineCache leaves every position that base already held unchanged
\* in every field (start, end, uri, line/column, visibility), for any
\* sequence of merges, also when the same document-local cache is merged a
\* second time with another stamp.
C28_BasePositionsUnchanged ==
    last.op = "combineCache" =>
        \A r \in Addrs(pre.cache) : heap[r] = pre.heap[r]

----------------------------------------------------------------------------
(* Termination of testID *)

\* C29: testID returns a boolean for every rule set and every default
\* visibility, also for a position without rules when the default
\* visibility is an empty array of rules.
C29_TestReturns ==
    vis.phase = "done" => ~vis.result.threw

----------------------------------------------------------------------------
(* The document lifecycle: a document that is opened is parsed and merged  *)
(* with its stamp; a document that is closed has its positions removed and *)
(* the cache trimmed.  Every document has its own stamp.                    *)

IsOpen(uri) == \E i \in 1..Len(opened) : opened[i].addition.uri = uri

InitLifecycle ==
    /\ heap = <<>>
    /\ cache = <<>>
    /\ override = <<>>
    /\ pre = [heap |-> <<>>, cache |-> <<>>, override |-> <<>>, result |-> <<>>]
    /\ last = NoLast
    /\ lastDoc = [k \in Types \X Ids |-> None]
    /\ nOps = 0
    /\ nParses = 0
    /\ result = <<>>
    /\ queried = "no"
    /\ budget = MaxLifeOps
    /\ vis = NoVis
    /\ opened = <<>>

\* combineCache(cache, lit, addition) with a new object literal
OpenDocument(lit, addition) ==
    /\ nOps < budget
    /\ ~IsOpen(addition.uri)
    /\ LET a == Alloc(heap, lit)
           m == combineCache(a.heap, cache, a.cache, Some(addition))
           r == Canon(m.heap, a.cache, m.ans, result)
       IN /\ heap' = r.heap
          /\ override' = r.override
          /\ cache' = r.cache
          /\ result' = r.result
          /\ last' = [Did("openDocument", r.heap, r.cache) EXCEPT
                          !.addition = Some(addition)]
    /\ lastDoc' = [k \in Types \X Ids |->
                     IF HasUnit(lit, k[1], k[2]) /\ HasDoc(GetUnit(lit, k[1], k[2]))
                     THEN GetUnit(lit, k[1], k[2]).doc
                     ELSE lastDoc[k]]
    /\ opened' = Append(opened, [lit |-> lit, addition |-> addition])
    /\ pre' = Snapshot
    /\ nOps' = nOps + 1
    /\ UNCHANGED <<nParses, queried, budget, vis>>

\* removeCachePosition(cache, uri); trimCache(cache)
CloseDocument(uri) ==
    /\ nOps < budget
    /\ IsOpen(uri)
    /\ LET r == Canon(heap, override,
                      trimCache(removeCachePosition(heap, cache, uri)), result)
       IN /\ heap' = r.heap
          /\ override' = r.override
          /\ cache' = r.cache
          /\ result' = r.result
          /\ lastDoc' = Forget(lastDoc, r.cache)
          /\ last' = [Did("closeDocument", r.heap, r.cache) EXCEPT
                          !.uri = Some(uri)]
    /\ opened' = SelectSeq(opened, LAMBDA d : d.addition.uri # uri)
    /\ pre' = Snapshot
    /\ nOps' = nOps + 1
    /\ UNCHANGED <<nParses, queried, budget, vis>>

NextLifecycle ==
    \/ \E lit \in LocalCaches, addition \in Additions : OpenDocument(lit, addition)
    \/ \E uri \in Uris : CloseDocument(uri)

SpecLifecycle == InitLifecycle /\ [][NextLifecycle]_vars

\* the cache built from the empty cache by merging the documents in order,
\* with the fields of every position in place of its address
RECURSIVE MergedInOrder(_, _, _)
MergedInOrder(h, c, docs) ==
    IF docs = <<>> THEN View(h, c)
    ELSE LET a == Alloc(h, Head(docs).lit)
             m == combineCache(a.heap, c, a.cache, Some(Head(docs).addition))
         IN MergedInOrder(m.heap, m.ans, Tail(docs))

\* the same units, with the same positions in every sequence (an absent
\* sequence counts as an empty one) and the same documentation
SameContent(c1, c2) ==
    /\ UnitsOf(c1) = UnitsOf(c2)
    /\ \A k \in UnitsOf(c1) \cap UnitsOf(c2) :
          LET u1 == GetUnit(c1, k[1], k[2])
              u2 == GetUnit(c2, k[1], k[2])
          IN /\ \A t \in Kinds : Arr(u1, t) = Arr(u2, t)
             /\ HasDoc(u1) = HasDoc(u2)
             /\ HasDoc(u1) => u1.doc = u2.doc

\* C30: closing a document undoes its merge: after documents with distinct
\* stamps were merged into the empty cache, removeCachePosition for one of
\* them followed by trimCache leaves the units, position sequences and
\* documentation of the cache built by merging only the other documents in
\* the same order; when every document is closed the cache is empty.
C30_CloseUndoesMerge ==
    last.op = "closeDocument" =>
        /\ SameContent(View(heap, cache), MergedInOrder(<<>>, <<>>, opened))
        /\ opened = <<>> => cache = <<>>


\* the units that hold a position
Populated(c) == {k \in UnitsOf(c) : ~AllEmpty(GetUnit(c, k[1], k[2]))}

\* C30, amended: after documents with distinct stamps were merged into the
\* empty cache, removeCachePosition for one of them followed by trimCache
\* leaves the position sequences of the cache built by merging only the
\* other documents in the same order, and the units of that cache that hold
\* a position; the documentation of a unit that is left is that of the last
\* merged document that carried one for it, closed or not; when every
\* document is closed the cache is empty.
C30_ClosePositions ==
    last.op = "closeDocument" =>
        LET others == MergedInOrder(<<>>, <<>>, opened)
        IN /\ UnitsOf(cache) = Populated(others)
           /\ \A k \in UnitsOf(cache) :
                 /\ \A t \in Kinds :
                       Values(heap, GetUnit(cache, k[1], k[2]), t)
                         = Arr(GetUnit(others, k[1], k[2]), t)
                 /\ GetUnit(cache, k[1], k[2]).doc = lastDoc[k]
           /\ opened = <<>> => cache = <<>>

\* a document is closed while another one stays open, and a unit that is
\* left carries the documentation of the closed document
C30_Witness ==
    /\ last.op = "closeDocument"
    /\ opened # <<>>
    /\ last.changed
    /\ \E k \in UnitsOf(cache) :
          LET others == MergedInOrder(<<>>, <<>>, opened)
          IN /\ HasDoc(GetUnit(cache, k[1], k[2]))
             /\ HasDoc(GetUnit(others, k[1], k[2]))
             /\ GetUnit(cache, k[1], k[2]).doc # GetUnit(others, k[1], k[2]).doc

----------------------------------------------------------------------------
(* The dot of a pattern *)

\* a pattern without the tokens ? and *
Plain(pattern) == \A i \in 1..Len(pattern) : pattern[i] \notin {"?", "*"}

\* s has the length of the pattern and its characters, where a dot of the
\* pattern stands for any one character
DotMatch(pattern, s) ==
    /\ Len(s) = Len(pattern)
    /\ \A i \in 1..Len(pattern) : pattern[i] = "." \/ pattern[i] = s[i]

\* C31: the characters of a pattern that the regular expression engine
\* reads as metacharacters are not escaped: a dot of the pattern matches
\* any one character of the requesting identity, so the pattern a.b:c
\* matches axb:c as well as a.b:c.
C31_DotMatchesAny ==
    /\ (SingleWildcardRule /\ Plain(vis.visibility[1][1].pattern)) =>
          vis.result = Returns(DotMatch(vis.visibility[1][1].pattern,
                                        toString(vis.forID)))
    /\ Example(<<"a", ".", "b", ":", "c">>, <<"a", "x", "b", ":", "c">>, TRUE)
    /\ Example(<<"a", ".", "b", ":", "c">>, <<"a", ".", "b", ":", "c">>, TRUE)

\* the pattern a.b:c was tested against axb:c and matched it
C31_Witness ==
    /\ SingleWildcardRule
    /\ vis.visibility[1][1].pattern = <<"a", ".", "b", ":", "c">>
    /\ toString(vis.forID) = <<"a", "x", "b", ":", "c">>
    /\ vis.result = Returns(TRUE)

====
